---- MODULE Spec2Model ----
(***************************************************************************)
(* Budget Planner (frontend/src/App.js): the App component as a state     *)
(* machine.  State is the component's React state (entries, currentEntry, *)
(* selectedMonth, editingId), the localStorage record under STORAGE_KEY,  *)
(* the wall clock, and the position in React's commit / effect cycle.     *)
(*                                                                         *)
(* Conventions                                                             *)
(*   - a JS string that the code converts (an amount, a JSON text) is a    *)
(*     sequence of characters or tokens; the conversions are computed;     *)
(*   - a date string 'yyyy-MM-dd' is [yyyy, MM, dd] with MM in 1..12, a JS *)
(*     Date is [year, month, date] with month in 0..11, as in the code;    *)
(*   - a JS number that is summed is an IEEE-754 double (see Doubles).     *)
(***************************************************************************)
EXTENDS Integers, Sequences, FiniteSets, TLC

VARIABLES
    entries,        \* useState([])            line 17
    currentEntry,   \* useState({...})         line 18
    selectedMonth,  \* useState('yyyy-MM')     line 25
    editingId,      \* useState(null)          line 26
    storage,        \* localStorage[STORAGE_KEY]
    persisted,      \* what localStorage held under STORAGE_KEY when the page loaded
    queue,          \* setEntries calls queued by effects, applied at the next render
    uncaught,       \* an effect threw and no error boundary caught it
    typeDep,        \* currentEntry.type as the category effect last saw it
    pc,             \* position in the commit / effect cycle
    pass,           \* 1, 2: mount effect pass (2 = StrictMode's second run); 0: mounted
    events,         \* the number of UI events handled so far
    clock,          \* Date.now()
    today,          \* new Date(), the calendar day
    last            \* the last ledger operation, for stating the claims

vars == <<entries, currentEntry, selectedMonth, editingId, storage, persisted, queue, uncaught,
          typeDep, pc, pass, events, clock, today, last>>

(***************************************************************************)
(* Bounds of the model                                                     *)
(***************************************************************************)
MaxEvents == 5      \* a session handles at most this many UI events
MaxCalcLen == 3     \* length of the ledgers the aggregation is applied to
MaxTrendLen == 2    \* length of the ledgers the trend series is applied to

(***************************************************************************)
(* Strings of digits: parseFloat and Number.prototype.toFixed(2)           *)
(***************************************************************************)
Digits == <<"0", "1", "2", "3", "4", "5", "6", "7", "8", "9">>

IsDigit(c) == \E d \in 1..10 : Digits[d] = c

DigitVal(c) == (CHOOSE d \in 1..10 : Digits[d] = c) - 1

NaN == [nan |-> TRUE, cents |-> 0]

Num(c) == [nan |-> FALSE, cents |-> c]

RECURSIVE DigitRun(_, _)
\* the length of the run of digits of s that starts at position i
DigitRun(s, i) ==
    IF i <= Len(s) /\ IsDigit(s[i]) THEN 1 + DigitRun(s, i + 1) ELSE 0

RECURSIVE DigitsValue(_, _, _)
\* the value of the n digits of s that start at position i
DigitsValue(s, i, n) ==
    IF n = 0 THEN 0
    ELSE 10 * DigitsValue(s, i, n - 1) + DigitVal(s[i + n - 1])

\* parseFloat(s): the longest prefix [-] digits [. digits] read as a decimal
\* literal, NaN when there is none.  The number is held in hundredths: the
\* form's amount input has step="0.01", so a submitted amount has at most two
\* fractional digits (the browser blocks the submit otherwise).
parseFloat(s) ==
    LET neg == Len(s) >= 1 /\ s[1] = "-"
        i0 == IF neg THEN 2 ELSE 1
        ni == DigitRun(s, i0)
        dot == i0 + ni <= Len(s) /\ s[i0 + ni] = "."
        nf == IF dot THEN DigitRun(s, i0 + ni + 1) ELSE 0
        f1 == IF nf >= 1 THEN DigitVal(s[i0 + ni + 1]) ELSE 0
        f2 == IF nf >= 2 THEN DigitVal(s[i0 + ni + 2]) ELSE 0
        mag == 100 * DigitsValue(s, i0, ni) + 10 * f1 + f2
    IN  IF ni = 0 /\ nf = 0 THEN NaN
        ELSE Num(IF neg THEN 0 - mag ELSE mag)

RECURSIVE IntDigits(_)
\* the decimal digits of a natural number
IntDigits(n) ==
    IF n < 10 THEN <<Digits[n + 1]>>
    ELSE IntDigits(n \div 10) \o <<Digits[(n % 10) + 1]>>

\* x.toFixed(2)
toFixed2(x) ==
    IF x.nan THEN <<"N", "a", "N">>
    ELSE LET mag == IF x.cents < 0 THEN 0 - x.cents ELSE x.cents
         IN  (IF x.cents < 0 THEN <<"-">> ELSE <<>>)
             \o IntDigits(mag \div 100)
             \o <<".", Digits[((mag % 100) \div 10) + 1], Digits[(mag % 10) + 1]>>

(***************************************************************************)
(* JSON texts, as token sequences                                          *)
(***************************************************************************)
Tok(k) == [k |-> k, v |-> ""]

Str(s) == [k |-> "str", v |-> s]

EntryKeys == <<"id", "type", "amount", "category", "description", "date">>

\* JSON.stringify of one entry object: its own keys in insertion order
StringifyEntry(e) ==
    <<Tok("{"),
      Str("id"), Tok(":"), Str(e.id), Tok(","),
      Str("type"), Tok(":"), Str(e.type), Tok(","),
      Str("amount"), Tok(":"), Str(e.amount), Tok(","),
      Str("category"), Tok(":"), Str(e.category), Tok(","),
      Str("description"), Tok(":"), Str(e.description), Tok(","),
      Str("date"), Tok(":"), Str(e.date),
      Tok("}")>>

RECURSIVE StringifyElements(_, _)
StringifyElements(list, i) ==
    IF i > Len(list) THEN <<>>
    ELSE (IF i > 1 THEN <<Tok(",")>> ELSE <<>>)
         \o StringifyEntry(list[i]) \o StringifyElements(list, i + 1)

\* JSON.stringify(entries)
JSONstringify(list) == <<Tok("[")>> \o StringifyElements(list, 1) \o <<Tok("]")>>

\* JS values as JSON.parse builds them
JNull == [t |-> "null", v |-> <<>>]

JStr(s) == [t |-> "str", v |-> s]

JArr(elems) == [t |-> "arr", v |-> elems]

\* members: a sequence of <<key, value>>; a repeated key keeps its last value
JObj(members) == [t |-> "obj", v |-> members]

ParseFail == [ok |-> FALSE, val |-> JNull, next |-> 0]

ParseOk(val, next) == [ok |-> TRUE, val |-> val, next |-> next]

KindAt(text, i) == IF i <= Len(text) THEN text[i].k ELSE "eof"

RECURSIVE ParseValue(_, _), ParseElements(_, _, _), ParseMembers(_, _, _)
ParseValue(text, i) ==
    CASE KindAt(text, i) = "str" -> ParseOk(JStr(text[i].v), i + 1)
      [] KindAt(text, i) = "null" -> ParseOk(JNull, i + 1)
      [] KindAt(text, i) = "[" ->
            IF KindAt(text, i + 1) = "]" THEN ParseOk(JArr(<<>>), i + 2)
            ELSE ParseElements(text, i + 1, <<>>)
      [] KindAt(text, i) = "{" ->
            IF KindAt(text, i + 1) = "}" THEN ParseOk(JObj(<<>>), i + 2)
            ELSE ParseMembers(text, i + 1, <<>>)
      [] OTHER -> ParseFail

ParseElements(text, i, acc) ==
    LET r == ParseValue(text, i)
    IN  IF ~r.ok THEN ParseFail
        ELSE CASE KindAt(text, r.next) = "," ->
                    ParseElements(text, r.next + 1, Append(acc, r.val))
               [] KindAt(text, r.next) = "]" ->
                    ParseOk(JArr(Append(acc, r.val)), r.next + 1)
               [] OTHER -> ParseFail

ParseMembers(text, i, acc) ==
    IF KindAt(text, i) # "str" \/ KindAt(text, i + 1) # ":" THEN ParseFail
    ELSE LET r == ParseValue(text, i + 2)
         IN  IF ~r.ok THEN ParseFail
             ELSE CASE KindAt(text, r.next) = "," ->
                         ParseMembers(text, r.next + 1, Append(acc, <<text[i].v, r.val>>))
                    [] KindAt(text, r.next) = "}" ->
                         ParseOk(JObj(Append(acc, <<text[i].v, r.val>>)), r.next + 1)
                    [] OTHER -> ParseFail

\* JSON.parse(text): ok = FALSE stands for the SyntaxError it throws
JSONparse(text) ==
    LET r == ParseValue(text, 1)
    IN  IF r.ok /\ r.next = Len(text) + 1 THEN r ELSE ParseFail

\* obj[key] of a parsed object (the key is present)
Member(obj, key) ==
    LET hits == {j \in 1..Len(obj.v) : obj.v[j][1] = key}
        j == CHOOSE x \in hits : \A y \in hits : y <= x
    IN  obj.v[j][2]

HasKey(obj, key) == \E j \in 1..Len(obj.v) : obj.v[j][1] = key

\* a parsed value that is an object holding the six string fields of an entry
IsEntryObject(val) ==
    /\ val.t = "obj"
    /\ \A n \in 1..Len(EntryKeys) :
          HasKey(val, EntryKeys[n]) /\ Member(val, EntryKeys[n]).t = "str"

\* a parsed value the render can work with: an array of entry objects
IsEntryList(val) ==
    /\ val.t = "arr"
    /\ \A i \in 1..Len(val.v) : IsEntryObject(val.v[i])

\* the entries state holding a parsed array of entry objects
AsEntries(val) ==
    [i \in 1..Len(val.v) |->
        [id |-> Member(val.v[i], "id").v,
         type |-> Member(val.v[i], "type").v,
         amount |-> Member(val.v[i], "amount").v,
         category |-> Member(val.v[i], "category").v,
         description |-> Member(val.v[i], "description").v,
         date |-> Member(val.v[i], "date").v]]

(***************************************************************************)
(* Dates: date-fns format / parseISO / isSameMonth and Date.setMonth       *)
(***************************************************************************)
\* parseISO('yyyy-MM-dd'): the Date of that calendar day (months from 0)
parseISO(str) == [year |-> str.yyyy, month |-> str.MM - 1, date |-> str.dd]

\* format(date, 'yyyy-MM-dd')
formatDay(d) == [yyyy |-> d.year, MM |-> d.month + 1, dd |-> d.date]

\* format(date, 'yyyy-MM')
formatMonth(d) == [yyyy |-> d.year, MM |-> d.month + 1]

\* selectedMonth + '-01'
firstOf(ym) == [yyyy |-> ym.yyyy, MM |-> ym.MM, dd |-> 1]

\* isSameMonth(a, b)
isSameMonth(a, b) == a.year = b.year /\ a.month = b.month

MonthNames ==
    <<"Jan", "Feb", "Mar", "Apr", "May", "Jun", "Jul", "Aug", "Sep", "Oct", "Nov", "Dec">>

\* format(date, 'MMM yyyy')
formatLabel(d) == [MMM |-> MonthNames[d.month + 1], yyyy |-> d.year]

IsLeapYear(y) == (y % 4 = 0 /\ y % 100 # 0) \/ y % 400 = 0

\* the number of days of month m (from 0) of year y
DaysInMonth(y, m) ==
    IF m = 1 THEN (IF IsLeapYear(y) THEN 29 ELSE 28)
    ELSE IF m \in {3, 5, 8, 10} THEN 30
    ELSE 31

\* date.setMonth(m), m any integer: the month is carried into the year, and a
\* day of the month past the end of that month runs on into the following
\* month (ECMAScript MakeDay / MakeDate)
setMonth(d, m) ==
    LET y1 == d.year + (m \div 12)
        m1 == m % 12
        len == DaysInMonth(y1, m1)
    IN  IF d.date <= len THEN [year |-> y1, month |-> m1, date |-> d.date]
        ELSE IF m1 = 11 THEN [year |-> y1 + 1, month |-> 0, date |-> d.date - len]
        ELSE [year |-> y1, month |-> m1 + 1, date |-> d.date - len]

(***************************************************************************)
(* Doubles.  A finite IEEE-754 binary64 value is a sign and a magnitude    *)
(* held in fixed point, as limbs of LimbBits bits, lowest first: bit i of  *)
(* the magnitude (from 1) weighs 2^(i - 1 - FracLimbs * LimbBits).  An     *)
(* operation computes the exact result and rounds it to Mantissa           *)
(* significant bits, ties to even.  Amounts are hundredths of at least     *)
(* 0.01 and sums stay below 2^(IntLimbs * LimbBits), so every value met    *)
(* is a multiple of the lowest bit.                                        *)
(***************************************************************************)
Mantissa == 53

LimbBits == 15

FracLimbs == 4

IntLimbs == 1

Limbs == FracLimbs + IntLimbs

Base == 2 ^ LimbBits

ZeroBits == [j \in 1..Limbs |-> 0]

DZero == [nan |-> FALSE, neg |-> FALSE, bits |-> ZeroBits]

DNaN == [nan |-> TRUE, neg |-> FALSE, bits |-> ZeroBits]

\* bit i (from 1) of magnitude m
BitAt(m, i) == (m[((i - 1) \div LimbBits) + 1] \div (2 ^ ((i - 1) % LimbBits))) % 2

\* the number of bits of a limb x > 0
BitLen(x) == CHOOSE n \in 1..LimbBits : 2 ^ (n - 1) <= x /\ x < 2 ^ n

\* the position of the highest set bit of m, 0 for zero
TopBit(m) ==
    IF m = ZeroBits THEN 0
    ELSE LET t == CHOOSE j \in 1..Limbs : m[j] # 0 /\ \A k \in (j + 1)..Limbs : m[k] = 0
         IN  (t - 1) * LimbBits + BitLen(m[t])

RECURSIVE AddFrom(_, _, _, _)
AddFrom(a, b, j, carry) ==
    IF j > Limbs THEN <<>>
    ELSE <<(a[j] + b[j] + carry) % Base>>
         \o AddFrom(a, b, j + 1, (a[j] + b[j] + carry) \div Base)

\* a + b, exactly
AddBits(a, b) == AddFrom(a, b, 1, 0)

RECURSIVE SubFrom(_, _, _, _)
SubFrom(a, b, j, borrow) ==
    IF j > Limbs THEN <<>>
    ELSE <<(a[j] - b[j] - borrow) % Base>>
         \o SubFrom(a, b, j + 1, IF a[j] - b[j] - borrow < 0 THEN 1 ELSE 0)

\* a - b, exactly, for a >= b
SubBits(a, b) == SubFrom(a, b, 1, 0)

\* a >= b
GeqBits(a, b) ==
    \/ a = b
    \/ \E j \in 1..Limbs : a[j] > b[j] /\ \A k \in (j + 1)..Limbs : a[k] = b[k]

\* m with its n lowest bits cleared
ClearLow(m, n) ==
    [j \in 1..Limbs |->
        IF j * LimbBits <= n THEN 0
        ELSE IF (j - 1) * LimbBits >= n THEN m[j]
        ELSE (m[j] \div (2 ^ (n - (j - 1) * LimbBits))) * (2 ^ (n - (j - 1) * LimbBits))]

\* the magnitude with bit i alone set
OneBit(i) ==
    [j \in 1..Limbs |-> IF j = ((i - 1) \div LimbBits) + 1 THEN 2 ^ ((i - 1) % LimbBits) ELSE 0]

\* the magnitude m (with sticky: a nonzero remainder below its lowest bit) rounded
\* to Mantissa significant bits, ties to even
RoundBits(m, sticky) ==
    LET drop == TopBit(m) - Mantissa
        rest == sticky \/ (drop > 1 /\ ClearLow(m, drop - 1) # m)
        up == BitAt(m, drop) = 1 /\ (rest \/ BitAt(m, drop + 1) = 1)
    IN  IF drop <= 0 THEN m
        ELSE IF up THEN AddBits(ClearLow(m, drop), OneBit(drop + 1))
        ELSE ClearLow(m, drop)

\* x + y on doubles
DAdd(x, y) ==
    IF x.nan \/ y.nan THEN DNaN
    ELSE IF x.neg = y.neg
         THEN [nan |-> FALSE, neg |-> x.neg, bits |-> RoundBits(AddBits(x.bits, y.bits), FALSE)]
    ELSE IF x.bits = y.bits THEN DZero
    ELSE IF GeqBits(x.bits, y.bits)
         THEN [nan |-> FALSE, neg |-> x.neg, bits |-> RoundBits(SubBits(x.bits, y.bits), FALSE)]
    ELSE [nan |-> FALSE, neg |-> y.neg, bits |-> RoundBits(SubBits(y.bits, x.bits), FALSE)]

\* x - y on doubles
DSub(x, y) == DAdd(x, IF y.nan \/ y.bits = ZeroBits THEN y ELSE [y EXCEPT !.neg = ~y.neg])

\* x === y on doubles (NaN equals nothing)
DEq(x, y) == ~x.nan /\ ~y.nan /\ x = y

\* a double as a condition: 0 and NaN are falsy
DTruthy(x) == ~x.nan /\ x.bits # ZeroBits

RECURSIVE FracLimbsOf(_, _)
\* the first k limbs of the binary expansion of r / 100, the highest one last
FracLimbsOf(r, k) ==
    IF k = 0 THEN <<>>
    ELSE FracLimbsOf((r * Base) % 100, k - 1) \o <<(r * Base) \div 100>>

RECURSIVE FracRemainder(_, _)
\* what remains of r / 100 below those k limbs
FracRemainder(r, k) == IF k = 0 THEN r ELSE FracRemainder((r * Base) % 100, k - 1)

RECURSIVE IntLimbsOf(_, _)
\* the k low limbs of a natural number, lowest first
IntLimbsOf(n, k) == IF k = 0 THEN <<>> ELSE <<n % Base>> \o IntLimbsOf(n \div Base, k - 1)

\* the double that a decimal literal of c hundredths denotes: c / 100 correctly rounded
Double(x) ==
    IF x.nan THEN DNaN
    ELSE LET mag == IF x.cents < 0 THEN 0 - x.cents ELSE x.cents
             exact == FracLimbsOf(mag % 100, FracLimbs) \o IntLimbsOf(mag \div 100, IntLimbs)
             bits == RoundBits(exact, FracRemainder(mag % 100, FracLimbs) # 0)
         IN  [nan |-> FALSE, neg |-> x.cents < 0, bits |-> bits]

(***************************************************************************)
(* The component: constants and initial state                              *)
(***************************************************************************)
CATEGORIES ==
    [income |-> <<"Salary", "Freelance", "Investment", "Gift", "Other">>,
     expense |-> <<"Food", "Transport", "Entertainment", "Bills", "Shopping",
                   "Health", "Education", "Other">>]

null == "null"

undefined == "undefined"

\* the form as useState, handleSubmit and cancelEdit set it (no id key)
blankEntry(now) ==
    [id |-> undefined, type |-> "expense", amount |-> <<>>, category |-> "Food",
     description |-> "", date |-> formatDay(now)]

Absent == [present |-> FALSE, text |-> <<>>]

Stored(text) == [present |-> TRUE, text |-> text]

NoOp == [op |-> "none", before |-> <<>>, id |-> null, draft |-> <<>>, fresh |-> FALSE]

(***************************************************************************)
(* Inputs                                                                  *)
(***************************************************************************)
\* what the amount input can hold on a submit: empty, zero, negative, positive
AmountInputs == {<<>>, <<"0">>, <<"-", "2">>, <<"1", "2", ".", "5">>}

\* the options of the category select that the user picks among
CategoryPicks == {1, 2}

DescriptionInputs == {"rent"}

DateInputs == {[yyyy |-> 2024, MM |-> 1, dd |-> 5]}

\* the values Date.now() takes during the session
Instants == {1, 2}

\* the calendar day of the session
SessionDay == [year |-> 2024, month |-> 2, date |-> 31]

\* an entry a previous session saved
SavedEntry ==
    [id |-> "0", type |-> "income", amount |-> <<"9", ".", "9", "0">>,
     category |-> "Freelance", description |-> "rent",
     date |-> [yyyy |-> 2024, MM |-> 1, dd |-> 5]]

\* what localStorage may hold under STORAGE_KEY when the page loads: nothing,
\* the empty string, a saved ledger, a truncated text, or JSON of another shape
PersistedStates ==
    { Absent,
      Stored(<<>>),
      Stored(JSONstringify(<<>>)),
      Stored(JSONstringify(<<SavedEntry>>)),
      Stored(<<Tok("["), Tok("{")>>),
      Stored(<<Tok("null")>>),
      Stored(<<Tok("{"), Tok("}")>>) }

Init ==
    /\ entries = <<>>
    /\ today = SessionDay
    /\ currentEntry = blankEntry(today)
    /\ selectedMonth = formatMonth(today)
    /\ editingId = null
    /\ storage \in PersistedStates
    /\ persisted = storage
    /\ queue = <<>>
    /\ uncaught = FALSE
    /\ typeDep = undefined
    /\ pc = "load"
    /\ pass = 1
    /\ events = 0
    /\ clock = 1
    /\ last = NoOp

(***************************************************************************)
(* Effects (lines 28-48) and the render that follows them                  *)
(***************************************************************************)
\* if (saved): a string is truthy unless it is empty; getItem gives null when absent
Truthy(saved) == saved.present /\ saved.text # <<>>

\* lines 29-34: the load effect, run on mount
LoadEffect ==
    /\ pc = "load"
    /\ LET saved == storage
           r == JSONparse(saved.text)
       IN  IF Truthy(saved)
           THEN IF r.ok
                THEN queue' = Append(queue, r.val) /\ UNCHANGED uncaught
                ELSE uncaught' = TRUE /\ UNCHANGED queue
           ELSE UNCHANGED <<persisted, queue, uncaught>>
    /\ pc' = "save"
    /\ UNCHANGED <<persisted, entries, currentEntry, selectedMonth, editingId, storage, typeDep,
                   pass, events, clock, today, last>>

\* the save effect with an empty dependency list: it writes on mount only
SaveEffectOnMountOnly ==
    /\ pc = "save"
    /\ storage' = IF pass > 0 THEN Stored(JSONstringify(entries)) ELSE storage
    /\ pc' = IF pass > 0 \/ currentEntry.type # typeDep THEN "category" ELSE "idle"
    /\ UNCHANGED <<persisted, entries, currentEntry, selectedMonth, editingId, queue, uncaught,
                   typeDep, pass, events, clock, today, last>>

\* lines 37-39: the save effect, run on mount and after a render that changed entries
SaveEffect ==
    /\ pc = "save"
    /\ storage' = Stored(JSONstringify(entries))
    /\ pc' = IF pass > 0 \/ currentEntry.type # typeDep THEN "category" ELSE "idle"
    /\ UNCHANGED <<persisted, entries, currentEntry, selectedMonth, editingId, queue, uncaught,
                   typeDep, pass, events, clock, today, last>>

\* lines 43-47: the category of the form becomes the first category of its type
categoryEffect(cur) ==
    IF cur.type = "income"
    THEN [cur EXCEPT !.category = CATEGORIES.income[1]]
    ELSE [cur EXCEPT !.category = CATEGORIES.expense[1]]

\* lines 42-48: the category effect, run on mount and after a render that changed
\* currentEntry.type.  It is the last mount effect: a development build whose root
\* is under React.StrictMode then runs the mount effects a second time (pass 2),
\* a production build goes on to render.
CategoryEffect ==
    /\ pc = "category"
    /\ currentEntry' = categoryEffect(currentEntry)
    /\ typeDep' = currentEntry.type
    /\ \/ pc' = (IF pass > 0 THEN "render" ELSE "idle") /\ UNCHANGED pass
       \/ pass = 1 /\ pc' = "load" /\ pass' = 2
    /\ UNCHANGED <<persisted, entries, selectedMonth, editingId, storage, queue, uncaught,
                   events, clock, today, last>>

\* the render after the mount effects: the queued setEntries calls are applied (the
\* last one wins); an uncaught effect error unmounts the tree, and so does a render
\* that throws (lines 52-53: entries.filter, entry.type on a value of another shape)
Render ==
    /\ pc = "render"
    /\ pass' = 0
    /\ queue' = <<>>
    /\ IF uncaught THEN pc' = "crashed" /\ UNCHANGED entries
       ELSE IF queue = <<>> THEN pc' = "idle" /\ UNCHANGED entries
       ELSE IF IsEntryList(queue[Len(queue)])
            THEN entries' = AsEntries(queue[Len(queue)]) /\ pc' = "save"
            ELSE pc' = "crashed" /\ UNCHANGED entries
    /\ UNCHANGED <<persisted, currentEntry, selectedMonth, editingId, storage, uncaught, typeDep,
                   events, clock, today, last>>

(***************************************************************************)
(* Event handlers.  React runs a handler to completion and renders before  *)
(* the next event; the effects of that render then run (pc = "save",       *)
(* "category") and the component is idle again.                            *)
(***************************************************************************)
\* a UI event is dispatched to a handler
Event == pc = "idle" /\ events < MaxEvents /\ events' = events + 1

\* the pc after a handler's render: which effects have a changed dependency
AfterRender(entriesSet, cur) ==
    IF entriesSet THEN "save"
    ELSE IF cur.type # typeDep THEN "category"
    ELSE "idle"

\* a form control's onChange / onClick (lines 275, 286, 303, 314, 328, 339)
SetField(cur) ==
    /\ Event
    /\ cur # currentEntry
    /\ currentEntry' = cur
    /\ pc' = AfterRender(FALSE, cur)
    /\ last' = NoOp
    /\ UNCHANGED <<persisted, entries, selectedMonth, editingId, storage, queue, uncaught,
                   typeDep, pass, clock, today>>

\* lines 275, 286: the Income / Expense buttons
ClickType == \E t \in {"income", "expense"} : SetField([currentEntry EXCEPT !.type = t])

\* line 303: the amount input
ChangeAmount == \E a \in AmountInputs : SetField([currentEntry EXCEPT !.amount = a])

\* line 314: the category select, whose options are CATEGORIES[currentEntry.type]
ChangeCategory ==
    \E i \in CategoryPicks :
        SetField([currentEntry EXCEPT !.category = CATEGORIES[currentEntry.type][i]])

\* line 328: the description input
ChangeDescription ==
    \E d \in DescriptionInputs : SetField([currentEntry EXCEPT !.description = d])

\* line 339: the date input
ChangeDate == \E d \in DateInputs : SetField([currentEntry EXCEPT !.date = d])

\* line 174: if (!currentEntry.amount || !currentEntry.category) return
SubmitAborts(cur) == cur.amount = <<>> \/ cur.category = ""

\* lines 176-180: { id: editingId || Date.now().toString(), ...currentEntry, amount }
newEntry(cur, editing, now) ==
    [id |-> IF cur.id # undefined THEN cur.id
            ELSE IF editing # null THEN editing
            ELSE ToString(now),
     type |-> cur.type,
     amount |-> toFixed2(parseFloat(cur.amount)),
     category |-> cur.category,
     description |-> cur.description,
     date |-> cur.date]

\* an update that drops the entry and appends its replacement
updatedMovedLast(prev, editing, entry) ==
    Append(SelectSeq(prev, LAMBDA e : e.id # editing), entry)

\* line 183: prev.map(e => e.id === editingId ? entry : e)
updated(prev, editing, entry) ==
    [i \in 1..Len(prev) |-> IF prev[i].id = editing THEN entry ELSE prev[i]]

\* line 186: [...prev, entry]
added(prev, entry) == Append(prev, entry)

\* line 204: prev.filter(e => e.id !== id)
removed(prev, id) == SelectSeq(prev, LAMBDA e : e.id # id)

\* lines 172-196
HandleSubmit ==
    /\ Event
    /\ ~SubmitAborts(currentEntry)
    /\ LET entry == newEntry(currentEntry, editingId, clock)
       IN  IF editingId # null
           THEN /\ entries' = updated(entries, editingId, entry)
                /\ last' = [op |-> "update", before |-> entries, id |-> editingId,
                            draft |-> currentEntry, fresh |-> last.op = "edit"]
           ELSE /\ entries' = added(entries, entry)
                /\ last' = [op |-> "add", before |-> entries, id |-> entry.id,
                            draft |-> currentEntry, fresh |-> FALSE]
    /\ editingId' = null
    /\ currentEntry' = blankEntry(today)
    /\ pc' = AfterRender(TRUE, currentEntry')
    /\ UNCHANGED <<persisted, selectedMonth, storage, queue, uncaught, typeDep, pass, clock,
                   today>>

\* lines 172-174: a submit with no amount or no category returns at once
HandleSubmitAbort ==
    /\ Event
    /\ SubmitAborts(currentEntry)
    /\ last' = [NoOp EXCEPT !.op = "abort"]
    /\ UNCHANGED <<persisted, entries, currentEntry, selectedMonth, editingId, storage, queue,
                   uncaught, typeDep, pc, pass, clock, today>>

\* lines 198-201, from the edit button of a listed entry (line 386)
HandleEdit ==
    /\ Event
    /\ \E i \in 1..Len(entries) :
          /\ currentEntry' = entries[i]
          /\ editingId' = entries[i].id
          /\ pc' = AfterRender(FALSE, entries[i])
    /\ last' = [NoOp EXCEPT !.op = "edit"]
    /\ UNCHANGED <<persisted, entries, selectedMonth, storage, queue, uncaught, typeDep, pass,
                   clock, today>>

\* lines 203-205, from the delete button of a listed entry (line 392)
HandleDelete ==
    /\ Event
    /\ \E i \in 1..Len(entries) :
          /\ entries' = removed(entries, entries[i].id)
          /\ last' = IF last.op = "add" /\ last.id = entries[i].id
                     THEN [last EXCEPT !.op = "add_remove"]
                     ELSE [NoOp EXCEPT !.op = "delete", !.id = entries[i].id]
    /\ pc' = AfterRender(TRUE, currentEntry)
    /\ UNCHANGED <<persisted, currentEntry, selectedMonth, editingId, storage, queue, uncaught,
                   typeDep, pass, clock, today>>

\* lines 207-216, from the Cancel button, rendered while editingId is set (line 352)
CancelEdit ==
    /\ Event
    /\ editingId # null
    /\ editingId' = null
    /\ currentEntry' = blankEntry(today)
    /\ pc' = AfterRender(FALSE, currentEntry')
    /\ last' = NoOp
    /\ UNCHANGED <<persisted, entries, selectedMonth, storage, queue, uncaught, typeDep, pass,
                   clock, today>>

\* the clock advances: the next Date.now() is larger passes: the next Date.now() is larger
Tick ==
    /\ pc = "idle"
    /\ clock + 1 \in Instants
    /\ clock' = clock + 1
    /\ UNCHANGED <<persisted, entries, currentEntry, selectedMonth, editingId, storage, queue,
                   uncaught, typeDep, pc, pass, events, today, last>>

Next ==
    \/ LoadEffect
    \/ SaveEffect
    \/ CategoryEffect
    \/ Render
    \/ ClickType
    \/ ChangeAmount
    \/ ChangeCategory
    \/ ChangeDescription
    \/ ChangeDate
    \/ HandleSubmit
    \/ HandleSubmitAbort
    \/ HandleEdit
    \/ HandleDelete
    \/ CancelEdit
    \/ Tick

Spec == Init /\ [][Next]_vars

(***************************************************************************)
(* The aggregation (lines 51-92) and the trend series (lines 95-142),      *)
(* computed by each render from entries, selectedMonth and new Date()      *)
(***************************************************************************)
RECURSIVE SumFrom(_, _, _)
SumFrom(list, i, sum) ==
    IF i > Len(list) THEN sum
    ELSE SumFrom(list, i + 1, DAdd(sum, Double(parseFloat(list[i].amount))))

\* list.reduce((sum, entry) => sum + parseFloat(entry.amount), 0)
sumAmounts(list) == SumFrom(list, 1, DZero)

\* list.filter(entry => entry.type === type)
ofType(list, type) == SelectSeq(list, LAMBDA e : e.type = type)

\* list.filter(entry => isSameMonth(parseISO(entry.date), date))
inMonth(list, date) == SelectSeq(list, LAMBDA e : isSameMonth(parseISO(e.date), date))

KeyIndex(acc, key) == CHOOSE k \in 1..Len(acc) : acc[k].key = key

RECURSIVE BreakdownFrom(_, _, _)
\* lines 78-81: acc[entry.category] = (acc[entry.category] || 0) + parseFloat(entry.amount);
\* the object is held as its keys in insertion order with their values
BreakdownFrom(list, i, acc) ==
    IF i > Len(list) THEN acc
    ELSE LET cat == list[i].category
             amount == Double(parseFloat(list[i].amount))
             has == \E k \in 1..Len(acc) : acc[k].key = cat
             old == IF has /\ DTruthy(acc[KeyIndex(acc, cat)].value)
                    THEN acc[KeyIndex(acc, cat)].value
                    ELSE DZero
             acc1 == IF has
                     THEN [acc EXCEPT ![KeyIndex(acc, cat)].value = DAdd(old, amount)]
                     ELSE Append(acc, [key |-> cat, value |-> DAdd(old, amount)])
         IN  BreakdownFrom(list, i + 1, acc1)

\* lines 51-92
calculations(list, month) ==
    LET totalIncome == sumAmounts(ofType(list, "income"))
        totalExpenses == sumAmounts(ofType(list, "expense"))
        monthlyEntries == inMonth(list, parseISO(firstOf(month)))
    IN  [totalIncome |-> totalIncome,
         totalExpenses |-> totalExpenses,
         balance |-> DSub(totalIncome, totalExpenses),
         monthlyIncome |-> sumAmounts(ofType(monthlyEntries, "income")),
         monthlyExpenses |-> sumAmounts(ofType(monthlyEntries, "expense")),
         monthlyEntries |-> monthlyEntries,
         categoryBreakdown |-> BreakdownFrom(ofType(monthlyEntries, "expense"), 1, <<>>)]

\* line 101: for (let i = 5; i >= 0; i--), position k of the series holds i = 6 - k;
\* lines 102-103: const date = new Date(); date.setMonth(date.getMonth() - i)
trendDate(now, k) == setMonth(now, now.month - (6 - k))

\* lines 95-142: the labels and the two data sequences of the line chart
lineChartData(list, now) ==
    [labels |-> [k \in 1..6 |-> formatLabel(trendDate(now, k))],
     income |-> [k \in 1..6 |-> sumAmounts(ofType(inMonth(list, trendDate(now, k)), "income"))],
     expenses |-> [k \in 1..6 |-> sumAmounts(ofType(inMonth(list, trendDate(now, k)), "expense"))]]

(***************************************************************************)
(* The aggregation applied to ledgers: a mounted, idle page holding any of *)
(* the ledgers of CalcLedgers, the user choosing the month                 *)
(***************************************************************************)
\* ledger entries get distinct ids
WithIds(list) == [i \in 1..Len(list) |-> [list[i] EXCEPT !.id = ToString(i)]]

LedgersOf(pool, maxLen) ==
    {WithIds(l) : l \in UNION {[1..n -> pool] : n \in 0..maxLen}}

Cents(c) == toFixed2(Num(c))

CalcEntries ==
    {[id |-> "", type |-> "expense", amount |-> Cents(c), category |-> cat,
      description |-> "", date |-> [yyyy |-> 2024, MM |-> m, dd |-> 5]] :
        c \in {1, 2, 3}, cat \in {"Food", "Transport"}, m \in {1, 2}}
    \cup {[id |-> "", type |-> "income", amount |-> Cents(100000), category |-> "Salary",
           description |-> "", date |-> [yyyy |-> 2024, MM |-> 1, dd |-> 5]]}

CalcLedgers == LedgersOf(CalcEntries, MaxCalcLen)

MonthInputs == {[yyyy |-> 2024, MM |-> 1], [yyyy |-> 2024, MM |-> 2]}

\* a mounted page that is idle, holding ledger list on day now
Idle(list, now) ==
    /\ entries = list
    /\ today = now
    /\ currentEntry = blankEntry(now)
    /\ selectedMonth = formatMonth(now)
    /\ editingId = null
    /\ storage = Stored(JSONstringify(list))
    /\ persisted = storage
    /\ queue = <<>>
    /\ uncaught = FALSE
    /\ typeDep = "expense"
    /\ pc = "idle"
    /\ pass = 0
    /\ events = 0
    /\ clock = 1
    /\ last = NoOp

InitCalc == \E list \in CalcLedgers : Idle(list, SessionDay)

\* lines 449, 493: the month inputs
SetSelectedMonth ==
    /\ pc = "idle"
    /\ \E m \in MonthInputs : m # selectedMonth /\ selectedMonth' = m
    /\ UNCHANGED <<entries, currentEntry, editingId, storage, persisted, queue, uncaught,
                   typeDep, pc, pass, events, clock, today, last>>

NextCalc == SetSelectedMonth

SpecCalc == InitCalc /\ [][NextCalc]_vars

(***************************************************************************)
(* The trend series applied to ledgers while the calendar advances         *)
(***************************************************************************)
TrendEntries ==
    {[id |-> "", type |-> "income", amount |-> Cents(1010), category |-> "Salary",
      description |-> "", date |-> [yyyy |-> 2024, MM |-> 1, dd |-> 31]],
     [id |-> "", type |-> "expense", amount |-> Cents(20), category |-> "Food",
      description |-> "", date |-> [yyyy |-> 2024, MM |-> 2, dd |-> 29]],
     [id |-> "", type |-> "expense", amount |-> Cents(330), category |-> "Bills",
      description |-> "", date |-> [yyyy |-> 2023, MM |-> 12, dd |-> 1]]}

TrendLedgers == LedgersOf(TrendEntries, MaxTrendLen)

\* the days the calendar runs through: a year's end and a leap February
FirstDay == [year |-> 2023, month |-> 11, date |-> 28]

LastDay == [year |-> 2024, month |-> 6, date |-> 1]

InitTrend == \E list \in TrendLedgers : Idle(list, FirstDay)

\* midnight: new Date() is the following day
DayPasses ==
    /\ pc = "idle"
    /\ today # LastDay
    /\ today' = IF today.date < DaysInMonth(today.year, today.month)
                THEN [today EXCEPT !.date = @ + 1]
                ELSE IF today.month = 11
                THEN [year |-> today.year + 1, month |-> 0, date |-> 1]
                ELSE [year |-> today.year, month |-> today.month + 1, date |-> 1]
    /\ UNCHANGED <<entries, currentEntry, selectedMonth, editingId, storage, persisted,
                   queue, uncaught, typeDep, pc, pass, events, clock, last>>

NextTrend == DayPasses

SpecTrend == InitTrend /\ [][NextTrend]_vars

(***************************************************************************)
(* Properties of the aggregation                                           *)
(***************************************************************************)
\* the calendar month that lies n months before the month of day now
MonthsBefore(now, n) ==
    [year |-> (now.year * 12 + now.month - n) \div 12,
     month |-> (now.year * 12 + now.month - n) % 12]

\* C4: on every day, position k of the trend series (labels, income, expenses)
\* is the calendar month 6 - k months before the current one, oldest first, and
\* holds the income and expense sums of the entries dated in that month.
TrendCoversSixMonths ==
    LET chart == lineChartData(entries, today)
    IN  \A k \in 1..6 :
          LET month == MonthsBefore(today, 6 - k)
          IN  /\ chart.labels[k] = formatLabel(month)
              /\ DEq(chart.income[k], sumAmounts(ofType(inMonth(entries, month), "income")))
              /\ DEq(chart.expenses[k], sumAmounts(ofType(inMonth(entries, month), "expense")))

RECURSIVE SumValuesFrom(_, _, _)
SumValuesFrom(acc, k, sum) ==
    IF k > Len(acc) THEN sum ELSE SumValuesFrom(acc, k + 1, DAdd(sum, acc[k].value))

\* the sum of Object.values(categoryBreakdown)
SumValues(acc) == SumValuesFrom(acc, 1, DZero)

AllCategories ==
    {CATEGORIES.income[i] : i \in 1..Len(CATEGORIES.income)}
    \cup {CATEGORIES.expense[i] : i \in 1..Len(CATEGORIES.expense)}

\* C6: the values of the category breakdown sum to the monthly expense total, and
\* a category is a key exactly when an expense of the selected month has it.
BreakdownSumsToMonthlyExpenses ==
    LET calc == calculations(entries, selectedMonth)
    IN  /\ DEq(SumValues(calc.categoryBreakdown), calc.monthlyExpenses)
        /\ \A cat \in AllCategories :
              (\E k \in 1..Len(calc.categoryBreakdown) : calc.categoryBreakdown[k].key = cat)
              <=> \E i \in 1..Len(entries) :
                     /\ entries[i].type = "expense"
                     /\ entries[i].category = cat
                     /\ entries[i].date.yyyy = selectedMonth.yyyy
                     /\ entries[i].date.MM = selectedMonth.MM

\* every total, monthly total and series value is 0 and the breakdown has no keys
AggregatesZero ==
    LET calc == calculations(entries, selectedMonth)
        chart == lineChartData(entries, today)
    IN  /\ DEq(calc.totalIncome, DZero) /\ DEq(calc.totalExpenses, DZero)
        /\ DEq(calc.balance, DZero)
        /\ DEq(calc.monthlyIncome, DZero) /\ DEq(calc.monthlyExpenses, DZero)
        /\ calc.categoryBreakdown = <<>>
        /\ \A k \in 1..6 : DEq(chart.income[k], DZero) /\ DEq(chart.expenses[k], DZero)

(***************************************************************************)
(* Properties of the entry store                                           *)
(***************************************************************************)
\* the ledger a previous session saved, when the persisted text is one
PersistedLedger == AsEntries(JSONparse(persisted.text).val)

HoldsLedger(blob) ==
    /\ blob.present
    /\ JSONparse(blob.text).ok
    /\ IsEntryList(JSONparse(blob.text).val)

\* the mount sequence: everything up to the first UI event
Mounting == events = 0

Mounted == pc = "idle" /\ events = 0

\* C1: no two entries of the ledger share an id, whatever sequence of adds,
\* updates and removes produced it (also when Date.now() did not advance
\* between two adds).
UniqueIds ==
    \A i, j \in 1..Len(entries) : i # j => entries[i].id # entries[j].id

BadBlob(blob) == ~HoldsLedger(blob)

\* C3: when the persisted blob is absent, unparseable or not a list of
\* entries, startup ends without a fatal error and with the empty ledger.
BadBlobLoadsEmpty ==
    BadBlob(persisted) =>
        /\ pc # "crashed"
        /\ Mounted => (entries = <<>> /\ AggregatesZero)

\* a stored amount that is a positive decimal with exactly two fractional digits
IsPositiveAmount(a) ==
    /\ ~parseFloat(a).nan
    /\ parseFloat(a).cents > 0
    /\ toFixed2(parseFloat(a)) = a

\* C5: every entry of the ledger has a strictly positive amount with exactly
\* two fractional digits; a submit of zero, a negative number or a non-number
\* never stores one.
AmountsPositive ==
    \A i \in 1..Len(entries) : IsPositiveAmount(entries[i].amount)

\* C7: adding an entry and then removing it by the id it was given leaves the
\* ledger as it was before the add: the same entries in the same order.
AddThenRemoveRestores ==
    last.op = "add_remove" => entries = last.before

\* the entry an update stores: the draft, its amount normalised, under id X
draftEntry(draft, X) ==
    [id |-> X, type |-> draft.type, amount |-> toFixed2(parseFloat(draft.amount)),
     category |-> draft.category, description |-> draft.description,
     date |-> draft.date]

\* C8: an update of id X, X in the ledger, puts the submitted draft under id X
\* at the position of the entry it replaces, keeps the ledger's length and
\* leaves every entry with another id as it was.
UpdateReplacesInPlace ==
    (last.op = "update" /\ \E i \in 1..Len(last.before) : last.before[i].id = last.id) =>
        /\ Len(entries) = Len(last.before)
        /\ \A i \in 1..Len(last.before) :
              IF last.before[i].id = last.id
              THEN entries[i] = draftEntry(last.draft, last.id)
              ELSE entries[i] = last.before[i]

\* C8 witness: the first of two entries has been updated to something new
UpdatedFirstOfTwo ==
    /\ last.op = "update"
    /\ Len(last.before) = 2
    /\ last.before[1].id = last.id
    /\ last.before[2].id # last.id
    /\ entries[1] # last.before[1]

\* C9: while the page mounts over a non-empty persisted ledger the stored blob
\* never differs from that ledger's serialization (the empty initial ledger is
\* never written over it), and the mount ends with the persisted ledger loaded,
\* also when the mount effects run a second time.
MountKeepsPersisted ==
    (Mounting /\ HoldsLedger(persisted) /\ PersistedLedger # <<>>) =>
        /\ storage = Stored(JSONstringify(PersistedLedger))
        /\ Mounted => entries = PersistedLedger

\* C10: starting an edit of an entry and submitting without touching a field
\* leaves the ledger as it was.
EditSubmitKeepsLedger ==
    (last.op = "update" /\ last.fresh) => entries = last.before

\* C11: while an edit is in progress (editingId is not null) the ledger holds an
\* entry with that id, so a submit that passes the required-field test always
\* leaves the ledger holding an entry with the submitted values: no such submit
\* is dropped because the entry under edit was deleted.
EditingIdInLedger ==
    /\ editingId # null => \E i \in 1..Len(entries) : entries[i].id = editingId
    /\ last.op \in {"add", "update"} =>
           \E i \in 1..Len(entries) : entries[i] = draftEntry(last.draft, last.id)

====
